---- MODULE Spec2Model ----
(***************************************************************************)
(* Verification model of kite-server.  The host/agent binary protocol      *)
(* (src/task/protocol.rs): the process-wide sequence counter LAST_SEQ,     *)
(* the request builder Request::new, the streaming response reader         *)
(* Response::from_stream, Response::is_ok and the response decoder         *)
(* Response::payload.  The access control middleware                       *)
(* (src/server/middlewares/acl.rs, src/services.rs) and the account        *)
(* validation (src/models/user/identity.rs).                               *)
(***************************************************************************)
EXTENDS Integers, Sequences, FiniteSets, TLC

(***************************************************************************)
(* Bounds of the model.                                                    *)
(***************************************************************************)
\* number of tasks that call Request::new
MaxCallers == 3
\* largest multiple of 2^32 in a sampled encoded length
MaxHi == 1
\* largest low 32-bit part in a sampled encoded length of the fields
MaxLo == 2

(***************************************************************************)
(* Program constants.                                                      *)
(***************************************************************************)
\* LAST_SEQ: AtomicU64::new(1u64)
InitialSeq == 1
\* RequestPayload has four variants; bincode writes the variant index as u32
NumVariants == 4
\* width in bytes of the variant index written by the codec
TagBytes == 4

Min(a, b) == IF a <= b THEN a ELSE b

(***************************************************************************)
(* usize lengths.  A length is kept as hi * 2^32 + lo, lo < 2^32, so that  *)
(* the narrowing cast `as u32` can be modelled exactly without numbers     *)
(* beyond the model checker's integers.                                    *)
(***************************************************************************)
Usize(h, l) == [hi |-> h, lo |-> l]

\* payload.len() as u32: keeps the low 32 bits
AsU32(len) == len.lo

\* u32 widened back to usize (what `size as usize` yields)
AsUsize(size) == Usize(0, size)

(***************************************************************************)
(* The Request side: Request::new called by concurrent tasks.              *)
(***************************************************************************)
Callers == 1..MaxCallers

\* The RequestPayload values handed to Request::new: the variant, the
\* encoded length of the variant's fields, and whether the codec can
\* serialize the value at all.
RequestPayloads ==
    [variant : {0, NumVariants - 1},
     fields : {Usize(h, MaxLo) : h \in {0, MaxHi}},
     serializable : BOOLEAN]

NoPayload == [variant |-> -1]
NoRequest == [seq |-> 0]

\* bincode::serialize(&payload): the variant index followed by the fields,
\* or an error.  The buffer is represented by its length.
Serialize(payload) ==
    IF payload.serializable
    THEN [ok |-> TRUE,
          len |-> Usize(payload.fields.hi, payload.fields.lo + TagBytes)]
    ELSE [ok |-> FALSE]

VARIABLES
    LAST_SEQ,   \* the process-wide atomic counter
    rpc,        \* rpc[t]: where task t is inside Request::new
    arg,        \* arg[t]: the payload task t passed to Request::new
    seq,        \* seq[t]: the local `seq` of task t
    request,    \* request[t]: the Request returned to task t
    issued      \* the fetch_add calls in the order they took effect:
                \* the calling task and the value it was given

rvars == <<LAST_SEQ, rpc, arg, seq, request, issued>>

VARIABLES
    mid,            \* which message the agent wrote to the stream
    cut,            \* the stream ends after this many bytes
    segment,        \* the segment size of the stream
    pos,            \* bytes the reader has taken from the stream
    pc,             \* where from_stream is: the read it is suspended in
    response,       \* the local `response`
    p,              \* the local `p`, the read length so far
    read_currently, \* the local `read_currently` of the pending body read
    filled,         \* bytes the pending read has received so far
    hbuf,           \* the bytes of the pending header field read
    result,         \* what from_stream returned: "none", "ok" or "io"
    bodyReads,      \* number of body reads issued
    partial,        \* some poll delivered less than the read still needed
    decoded         \* what Response::payload returned, if it was called

svars == <<mid, cut, segment, pos, pc, response, p, read_currently, filled, hbuf,
           result, bodyReads, partial, decoded>>

VARIABLES
    success,    \* what Response::is_ok answered: "unknown", TRUE or FALSE
    cvalue,     \* the payload value handed to the codec
    cbytes,     \* the bytes the codec's encode step produced for it
    cback,      \* what decoding those bytes returned
    train,      \* the messages the agent wrote back to back on one stream
    serialized, \* the callers let one from_stream finish before the next
    parked,     \* the locals of the other task's from_stream call
    switches,   \* number of times the scheduler changed the running task
    returned,   \* what the calls on the stream returned, in order
    areq,       \* the request AuthMiddleware::call was handed
    aout,       \* what AuthMiddleware::call did with it
    iarg,       \* the arguments of validate_oa_account
    ipc,        \* where validate_oa_account is
    iout,       \* what validate_oa_account returned
    portal      \* number of calls of verify_portal_login

kvars == <<success>>
cvars == <<cvalue, cbytes, cback>>
mvars == <<train, serialized, parked, switches, returned>>
avars == <<areq, aout>>
ivars == <<iarg, ipc, iout, portal>>
nvars == <<kvars, cvars, mvars, avars, ivars>>

vars == <<rvars, svars, nvars>>

InitRequest ==
    /\ LAST_SEQ = InitialSeq
    /\ rpc = [t \in Callers |-> "idle"]
    /\ arg = [t \in Callers |-> NoPayload]
    /\ seq = [t \in Callers |-> 0]
    /\ request = [t \in Callers |-> NoRequest]
    /\ issued = <<>>

\* mutant: the value after the add is returned (add_fetch for fetch_add)
FetchAddResultNew(counter) == counter + 1

\* LAST_SEQ.fetch_add(1, Ordering::Relaxed): the value before the add
FetchAddResult(counter) == counter

\* mutant: the increment is lost (a plain load in place of the atomic add)
FetchAddStoreLost(counter) == counter

\* LAST_SEQ.fetch_add(1, Ordering::Relaxed): the value stored
FetchAddStore(counter) == counter + 1

\* Request::new, line 60: the call and its atomic read-modify-write
NewFetchAdd(t, payload) ==
    /\ rpc[t] = "idle"
    /\ arg' = [arg EXCEPT ![t] = payload]
    /\ seq' = [seq EXCEPT ![t] = FetchAddResult(LAST_SEQ)]
    /\ issued' = Append(issued, [task |-> t, value |-> FetchAddResult(LAST_SEQ)])
    /\ LAST_SEQ' = FetchAddStore(LAST_SEQ)
    /\ rpc' = [rpc EXCEPT ![t] = "fetched"]
    /\ UNCHANGED <<request, svars, nvars>>

\* the Request built from the local seq and the serialized payload
BuildRequest(s, encoded) ==
    [seq |-> s, size |-> AsU32(encoded.len), payload |-> encoded.len]

\* Request::new, lines 61-68: serialize, unwrap, build and return; the
\* payload passed in is consumed
NewSerializeOk(t) ==
    /\ rpc[t] = "fetched"
    /\ Serialize(arg[t]).ok
    /\ request' = [request EXCEPT ![t] = BuildRequest(seq[t], Serialize(arg[t]))]
    /\ rpc' = [rpc EXCEPT ![t] = "returned"]
    /\ arg' = [arg EXCEPT ![t] = NoPayload]
    /\ UNCHANGED <<LAST_SEQ, seq, issued, svars, nvars>>

\* Request::new, line 61: unwrap() of a failed serialize panics; the task
\* unwinds and returns nothing
NewSerializePanic(t) ==
    /\ rpc[t] = "fetched"
    /\ ~Serialize(arg[t]).ok
    /\ rpc' = [rpc EXCEPT ![t] = "panicked"]
    /\ arg' = [arg EXCEPT ![t] = NoPayload]
    /\ UNCHANGED <<LAST_SEQ, seq, request, issued, svars, nvars>>

NextRequest ==
    \/ \E t \in Callers, payload \in RequestPayloads : NewFetchAdd(t, payload)
    \/ \E t \in Callers : NewSerializeOk(t)
    \/ \E t \in Callers : NewSerializePanic(t)

(***************************************************************************)
(* The Response side: the bytes on the stream.                             *)
(***************************************************************************)
\* read_u64 / read_u32 / read_u16: the widths of ack, size and code
AckBytes == 8
SizeBytes == 4
CodeBytes == 2
\* the body is read at most 2048 bytes at a time
ChunkMax == 2048

\* sizes of the sample bodies: shorter than a variant index, a short body,
\* and the last, partial chunk of the longest body
SmallSize == 3
MidSize == 10
TailSize == 904
\* number of bytes of a following message that are already on the stream
TrailLen == 2
\* largest number of segments a message is split into
MaxSegments == 32
\* the body bytes repeat with this period, which no chunk offset divides
BytePeriod == 251

HeaderLen == AckBytes + SizeBytes + CodeBytes

RECURSIVE ToBE(_, _)
\* the big-endian encoding of n in `width` bytes, as the agent writes it
ToBE(n, width) ==
    IF width = 0 THEN <<>>
    ELSE Append(ToBE(n \div 256, width - 1), n % 256)

\* a value no length of the model reaches: a number with a nonzero byte
\* beyond its low-order bytes
Huge == 1000000
\* number of low-order bytes of a big-endian number that are kept exactly
ExactBytes == 2

RECURSIVE BEValue(_)
\* the number whose big-endian digits are `bytes`
BEValue(bytes) ==
    IF bytes = <<>> THEN 0
    ELSE BEValue(SubSeq(bytes, 1, Len(bytes) - 1)) * 256 + bytes[Len(bytes)]

\* u64/u32/u16::from_be_bytes, as read_u64, read_u32 and read_u16 decode;
\* a number of more than ExactBytes significant bytes is kept as Huge
FromBE(bytes) ==
    IF \E i \in 1..(Len(bytes) - ExactBytes) : bytes[i] # 0
    THEN Huge
    ELSE BEValue(bytes)

\* a body of n bytes whose content depends on the position
PatternBody(n) == [i \in 1..n |-> i % BytePeriod]

\* encoded lengths of the codec's payloads: the fields of the two struct
\* variants and one element of the two list variants
StructLen == 2
ElemLen == 1
\* width in bytes of a sequence length written by the codec
CountBytes == 8

\* the bodies the agent sends: pattern bodies of the sample sizes, up to
\* three chunks long, and encoded payloads, well-formed and not
Bodies ==
    << <<>>,
       PatternBody(SmallSize),
       PatternBody(MidSize),
       PatternBody(ChunkMax),
       PatternBody(ChunkMax + 1),
       PatternBody(2 * ChunkMax + TailSize),
       <<0, 0, 0, 0>> \o [i \in 1..StructLen |-> 16 + i],
       <<1, 0, 0, 0>> \o [i \in 1..(StructLen - 1) |-> 32 + i],
       <<2, 0, 0, 0, 2, 0, 0, 0, 0, 0, 0, 0>> \o [i \in 1..(2 * ElemLen) |-> 48 + i],
       <<3, 0, 0, 0, 2, 0, 0, 0, 0, 0, 0, 0>> \o [i \in 1..ElemLen |-> 64 + i],
       <<NumVariants, 0, 0, 0>> \o [i \in 1..StructLen |-> 80 + i] >>

MsgIds == 1..Len(Bodies)

\* the messages: message m answers with ack m (the first with ack 1), the
\* sixth carries a two-byte ack and code, every third a failure code
Messages ==
    [m \in MsgIds |->
        [ack |-> IF m = 6 THEN 258 ELSE m,
         size |-> Len(Bodies[m]),
         code |-> IF m = 6 THEN 515 ELSE IF m % 3 = 0 THEN 1 ELSE 0,
         body |-> Bodies[m]]]

\* the first bytes of the message that follows on the stream
Trailer == [i \in 1..TrailLen |-> 170 + i]

\* what the agent wrote: header, body, then the start of its next message
Wires ==
    [m \in MsgIds |->
        ToBE(Messages[m].ack, AckBytes) \o ToBE(Messages[m].size, SizeBytes)
            \o ToBE(Messages[m].code, CodeBytes) \o Messages[m].body \o Trailer]

\* how many bytes the stream delivers before it ends
CutPoints(m) ==
    {c \in {0, 5, HeaderLen, HeaderLen + SmallSize,
            HeaderLen + Messages[m].size - 1, HeaderLen + Messages[m].size,
            Len(Wires[m])} : c >= 0 /\ c <= Len(Wires[m])}

\* the stream carries the agent's bytes in segments of one size; a message
\* is split into at most MaxSegments of them
SegmentSizes == {1, 3, 7, 300, 700, 1460}

Segments(m) == {s \in SegmentSizes : Len(Wires[m]) <= MaxSegments * s}

\* what the agent wrote for message m alone: header and body
Frame(m) == SubSeq(Wires[m], 1, HeaderLen + Messages[m].size)

RECURSIVE TrainWire(_)
\* the frames of a train of messages, back to back
TrainWire(ms) ==
    IF ms = <<>> THEN <<>> ELSE Frame(Head(ms)) \o TrainWire(Tail(ms))

\* the bytes on the stream: one message and the start of the next, or a
\* train of whole messages
Wire == IF train = <<>> THEN Wires[mid] ELSE TrainWire(train)

(***************************************************************************)
(* The payload codec's decode step (bincode::deserialize into              *)
(* ResponsePayload): a little-endian u32 variant index, then the fields of *)
(* a struct variant or the u64 length and the elements of a list variant.  *)
(***************************************************************************)
\* a little-endian number with a nonzero byte beyond its first is kept as
\* Huge
FromLE(bytes) ==
    IF \E i \in 2..Len(bytes) : bytes[i] # 0 THEN Huge ELSE bytes[1]

\* mutant: only the last variant is decoded as a list
IsListVariantLastOnly(tag) == tag >= NumVariants - 1

\* ResponsePayload: ActivityList and ScoreList, at positions 2 and 3, hold Vec
IsListVariant(tag) == tag >= 2

DecodeError == [ok |-> FALSE, error |-> "Decode"]

Deserialize(bytes) ==
    IF Len(bytes) < TagBytes THEN DecodeError
    ELSE LET tag == FromLE(SubSeq(bytes, 1, TagBytes))
             rest == SubSeq(bytes, TagBytes + 1, Len(bytes))
         IN IF tag >= NumVariants THEN DecodeError
            ELSE IF ~IsListVariant(tag)
            THEN IF Len(rest) < StructLen THEN DecodeError
                 ELSE [ok |-> TRUE, variant |-> tag,
                       fields |-> SubSeq(rest, 1, StructLen)]
            ELSE IF Len(rest) < CountBytes THEN DecodeError
                 ELSE LET count == FromLE(SubSeq(rest, 1, CountBytes))
                      IN IF Len(rest) - CountBytes < count * ElemLen
                         THEN DecodeError
                         ELSE [ok |-> TRUE, variant |-> tag,
                               fields |-> SubSeq(rest, CountBytes + 1,
                                                 CountBytes + count * ElemLen)]

(***************************************************************************)
(* The Response side: Response::from_stream and Response::payload.         *)
(***************************************************************************)

\* Response::default()
DefaultResponse == [ack |-> 0, size |-> 0, code |-> 0, payload |-> <<>>]

NotDecoded == [ok |-> FALSE, error |-> "none"]

InitResponse ==
    /\ mid \in MsgIds
    /\ cut \in CutPoints(mid)
    /\ segment \in Segments(mid)
    /\ pos = 0
    /\ pc = "idle"
    /\ response = DefaultResponse
    /\ p = 0
    /\ read_currently = 0
    /\ filled = 0
    /\ hbuf = <<>>
    /\ result = "none"
    /\ bodyReads = 0
    /\ partial = FALSE
    /\ decoded = NotDecoded

\* mutant: the status code is read with read_u32
HeaderFieldBytesWideCode(field) ==
    CASE field = "ack" -> AckBytes
      [] field = "size" -> SizeBytes
      [] field = "code" -> SizeBytes

\* mutant: the ack is read with read_u32 and the size with read_u64
HeaderFieldBytesSwapped(field) ==
    CASE field = "ack" -> SizeBytes
      [] field = "size" -> AckBytes
      [] field = "code" -> CodeBytes

\* the width of the header field read at each position of read_header
HeaderFieldBytes(field) ==
    CASE field = "ack" -> AckBytes
      [] field = "size" -> SizeBytes
      [] field = "code" -> CodeBytes

\* mutant: the buffer is reserved but left empty (Vec::with_capacity)
AllocPayloadEmpty(size) == <<>>

\* vec![0u8; response.size as usize].  The model keeps no more of the
\* buffer than the stream has bytes: what lies beyond can never be written,
\* and a read into such a buffer can only end in an error.
AllocPayload(size) == [i \in 1..Min(size, Len(Wire)) |-> 0]

\* the loop condition: p < response.size as usize
LoopContinues(offset, size) == offset < size

\* mutant: every body read asks for a whole chunk
ReadLenWholeChunk(offset, size) == ChunkMax

\* mutant: the body read asks for one byte more than is missing
ReadLenOneMore(offset, size) ==
    IF size - offset > ChunkMax THEN ChunkMax ELSE size - offset + 1

\* the length of the next body read: what is missing, at most 2048
ReadLen(offset, size) ==
    IF size - offset > ChunkMax THEN ChunkMax ELSE size - offset

\* mutant: every delivery is stored at the start of the slice
StoreChunkAtSliceStart(payload, offset, done, chunk) ==
    [i \in 1..Len(payload) |->
        IF i > offset /\ i <= offset + Len(chunk)
        THEN chunk[i - offset]
        ELSE payload[i]]

\* read_exact fills &mut response.payload[p..(p + read_currently)] from its
\* start: a delivery lands behind the bytes the read already received
StoreChunk(payload, offset, done, chunk) ==
    [i \in 1..Len(payload) |->
        IF i > offset + done /\ i <= offset + done + Len(chunk)
        THEN chunk[i - offset - done]
        ELSE payload[i]]

\* mutant: the offset is not advanced
NextOffsetStuck(offset, requested) == offset

\* mutant: the offset advances by one less than the read delivered
NextOffsetShort(offset, requested) == offset + requested - 1

\* p += read_exact(..): read_exact returns the length of the slice it filled
NextOffset(offset, requested) == offset + requested

\* mutant: the failure of a read is swallowed and the call reports success
ReadFailedSwallowed == "ok"

\* `.await?` on a failed read: the error is returned at once
ReadFailed == "io"

\* mutant: a Response is returned only if its ack is the seq of a Request
\* that has been built
ReadSucceededIfAcked ==
    IF \E t \in Callers : rpc[t] = "returned" /\ request[t].seq = response.ack
    THEN "ok"
    ELSE "io"

\* Ok(response)
ReadSucceeded == "ok"

\* from_stream is called: read_header issues its first read
CallFromStream ==
    /\ pc = "idle"
    /\ pc' = "ack"
    /\ UNCHANGED <<mid, cut, segment, pos, response, p, read_currently, filled,
                   hbuf, result, bodyReads, partial, decoded, rvars, nvars>>

Reading == pc \in {"ack", "size", "code", "body"}

\* the number of bytes the pending read asked for
Need == IF pc = "body" THEN read_currently ELSE HeaderFieldBytes(pc)

\* the code after read_header returned: lines 88-98, up to the first body
\* read or the early return
AfterHeader(r) ==
    IF r.size = 0
    THEN /\ response' = r
         /\ pc' = "done"
         /\ result' = ReadSucceeded
         /\ UNCHANGED <<p, read_currently, bodyReads>>
    ELSE /\ response' = [r EXCEPT !.payload = AllocPayload(r.size)]
         /\ p' = 0
         /\ IF LoopContinues(0, r.size)
            THEN /\ read_currently' = ReadLen(0, r.size)
                 /\ bodyReads' = bodyReads + 1
                 /\ pc' = "body"
                 /\ UNCHANGED result
            ELSE /\ pc' = "done"
                 /\ result' = ReadSucceeded
                 /\ UNCHANGED <<read_currently, bodyReads>>

\* a header field read completes with the bytes `bytes`
HeaderFieldDone(bytes) ==
    /\ hbuf' = <<>>
    /\ filled' = 0
    /\ CASE pc = "ack" ->
              /\ response' = [response EXCEPT !.ack = FromBE(bytes)]
              /\ pc' = "size"
              /\ UNCHANGED <<p, read_currently, result, bodyReads>>
         [] pc = "size" ->
              /\ response' = [response EXCEPT !.size = FromBE(bytes)]
              /\ pc' = "code"
              /\ UNCHANGED <<p, read_currently, result, bodyReads>>
         [] pc = "code" ->
              AfterHeader([response EXCEPT !.code = FromBE(bytes)])

\* a body read completes: lines 99-103, up to the next body read or return
BodyReadDone(payload) ==
    /\ response' = [response EXCEPT !.payload = payload]
    /\ p' = NextOffset(p, read_currently)
    /\ filled' = 0
    /\ hbuf' = <<>>
    /\ IF LoopContinues(NextOffset(p, read_currently), response.size)
       THEN /\ read_currently' = ReadLen(NextOffset(p, read_currently), response.size)
            /\ bodyReads' = bodyReads + 1
            /\ UNCHANGED <<pc, result>>
       ELSE /\ pc' = "done"
            /\ result' = ReadSucceeded
            /\ UNCHANGED <<read_currently, bodyReads>>

\* the bytes a poll hands over: what the pending read still needs if all of
\* it has arrived, else the rest of the segment the reader is in
Delivered(arrived) ==
    LET want == Min(Need - filled, cut - pos)
    IN IF arrived THEN want ELSE Min(want, segment - (pos % segment))

\* the stream hands bytes to the pending read
PollData(arrived) ==
    /\ Reading
    /\ pos < cut
    /\ LET n == Delivered(arrived)
           chunk == SubSeq(Wire, pos + 1, pos + n)
       IN /\ n > 0
          /\ pos' = pos + n
          /\ partial' = (partial \/ n < Need - filled)
          /\ IF filled + n < Need
             THEN /\ filled' = filled + n
                  /\ IF pc = "body"
                     THEN /\ response' = [response EXCEPT !.payload =
                                             StoreChunk(@, p, filled, chunk)]
                          /\ UNCHANGED hbuf
                     ELSE /\ hbuf' = hbuf \o chunk
                          /\ UNCHANGED response
                  /\ UNCHANGED <<pc, p, read_currently, result, bodyReads>>
             ELSE IF pc = "body"
                  THEN BodyReadDone(StoreChunk(response.payload, p, filled, chunk))
                  ELSE HeaderFieldDone(hbuf \o chunk)
    /\ UNCHANGED <<mid, cut, segment, decoded, rvars, nvars>>

\* mutant: a failed read is issued again
FailRetries ==
    /\ filled' = 0
    /\ hbuf' = <<>>
    /\ UNCHANGED <<pc, result, response, p, read_currently, mid, cut, segment, pos,
                   bodyReads, partial, decoded, rvars, nvars>>

\* the pending read fails and `?` returns the error: the locals are dropped
Fail ==
    /\ pc' = "done"
    /\ result' = ReadFailed
    /\ response' = DefaultResponse
    /\ p' = 0
    /\ read_currently' = 0
    /\ filled' = 0
    /\ hbuf' = <<>>
    /\ UNCHANGED <<mid, cut, segment, pos, bodyReads, partial, decoded, rvars, nvars>>

\* the stream has ended: the pending read sees end-of-file
PollEof ==
    /\ Reading
    /\ pos = cut
    /\ Fail

\* the stream fails (connection reset) while a read is pending
PollError ==
    /\ Reading
    /\ Fail

\* mutant: the decode result is unwrapped
PayloadResultUnwrap(d) == IF d.ok THEN d ELSE [ok |-> FALSE, error |-> "panic"]

\* bincode::deserialize(&self.payload)?, wrapped in Ok: Response::payload
PayloadResult(d) == d

\* the caller decodes the Response it was returned; payload(self) takes the
\* Response by value
CallPayload ==
    /\ result = "ok"
    /\ pc = "done"
    /\ pc' = "consumed"
    /\ decoded' = PayloadResult(Deserialize(response.payload))
    /\ UNCHANGED <<mid, cut, segment, pos, response, p, read_currently, filled,
                   hbuf, result, bodyReads, partial, rvars, nvars>>

NextResponse ==
    \/ CallFromStream
    \/ \E arrived \in BOOLEAN : PollData(arrived)
    \/ PollEof
    \/ PollError
    \/ CallPayload

(***************************************************************************)
(* Response::is_ok, asked of a Response that from_stream returned.         *)
(***************************************************************************)
\* the Responses is_ok is asked about: every sampled ack and code with
\* every sampled body
SampleResponses ==
    {[ack |-> a, size |-> Len(b), code |-> c, payload |-> b] :
        a \in {0, 1, 2, 258, Huge},
        c \in {0, 1, 2, 515, 65535},
        b \in {<<>>, PatternBody(SmallSize), PatternBody(MidSize)}}

NoValue == [variant |-> -1]

\* mutant: the comparison is inverted
is_ok_inverted(r) == r.code # 0

\* Response::is_ok: self.code == 0
is_ok(r) == r.code = 0

\* the caller awaits is_ok on the Response it holds
CallIsOk ==
    /\ result = "ok"
    /\ pc = "done"
    /\ success = "unknown"
    /\ success' = IF is_ok(response) THEN "true" ELSE "false"
    /\ UNCHANGED <<rvars, svars, cvars, mvars, avars, ivars>>

NextClassify == CallIsOk

(***************************************************************************)
(* The payload codec in both directions: RequestPayload is encoded by the  *)
(* host and decoded by the agent, ResponsePayload is encoded by the agent  *)
(* and decoded by the host.                                                *)
(***************************************************************************)
\* largest number of elements in a sampled list payload
MaxElems == 2

\* the byte values the sampled fields are made of
SampleBytes == {0, 1, 255}

\* what the variant at position v of an enum holds: every RequestPayload
\* variant holds a struct; ResponsePayload holds two structs, then two Vec
VariantShape(side, v) ==
    IF side = "response" /\ v >= 2 THEN "list" ELSE "struct"

\* the encoded fields of the sampled values of one shape
FieldSamples(shape) ==
    IF shape = "struct"
    THEN [1..StructLen -> SampleBytes]
    ELSE UNION {[1..(n * ElemLen) -> SampleBytes] : n \in 0..MaxElems}

\* the payload values of both enums
PayloadValues ==
    UNION {{[side |-> sd, variant |-> v, shape |-> VariantShape(sd, v), fields |-> f] :
                f \in FieldSamples(VariantShape(sd, v))} :
           sd \in {"request", "response"}, v \in 0..(NumVariants - 1)}

RECURSIVE ToLE(_, _)
\* the little-endian encoding of n in `width` bytes
ToLE(n, width) ==
    IF width = 0 THEN <<>>
    ELSE <<n % 256>> \o ToLE(n \div 256, width - 1)

\* the codec's encode step: the variant's position as a u32, then the
\* fields of a struct, or the u64 length and the elements of a Vec
EncodePayload(value) ==
    ToLE(value.variant, TagBytes)
        \o (IF value.shape = "list"
            THEN ToLE(Len(value.fields) \div ElemLen, CountBytes)
            ELSE <<>>)
        \o value.fields

\* the agent's decode step for RequestPayload: the variant's position, then
\* the fields of its struct
DeserializeRequest(bytes) ==
    IF Len(bytes) < TagBytes THEN DecodeError
    ELSE LET tag == FromLE(SubSeq(bytes, 1, TagBytes))
         IN IF tag >= NumVariants \/ Len(bytes) - TagBytes < StructLen
            THEN DecodeError
            ELSE [ok |-> TRUE, variant |-> tag,
                  fields |-> SubSeq(bytes, TagBytes + 1, TagBytes + StructLen)]

\* the sending side encodes the value
CodecEncode ==
    /\ cvalue # NoValue
    /\ cbytes = <<>>
    /\ cbytes' = EncodePayload(cvalue)
    /\ UNCHANGED <<cvalue, cback, rvars, svars, kvars, mvars, avars, ivars>>

\* the receiving side decodes the bytes: Response::payload on the host, the
\* agent's decoder for a request
CodecDecode ==
    /\ cbytes # <<>>
    /\ cback = NotDecoded
    /\ cback' = IF cvalue.side = "response"
                THEN PayloadResult(Deserialize(cbytes))
                ELSE DeserializeRequest(cbytes)
    /\ UNCHANGED <<cvalue, cbytes, rvars, svars, kvars, mvars, avars, ivars>>

NextCodec ==
    \/ CodecEncode
    \/ CodecDecode

(***************************************************************************)
(* Several exchanges on one stream: two tasks call from_stream on the      *)
(* stream the agent answers on.  The locals of the call that is running    *)
(* are the reader's variables; the locals of the other task's call are     *)
(* parked.                                                                 *)
(***************************************************************************)
\* the messages that travel in a train: the empty one and a short one
TrainMsgs == {1, 2}
\* number of messages in a train
TrainSize == 2
\* largest number of from_stream calls made on one stream: one more than
\* the stream has messages
MaxCalls == TrainSize + 1

Trains == [1..TrainSize -> TrainMsgs]

\* the segment size of a stream that carries a train
TrainSegment == 5
\* the scheduler changes the running task at most this often
MaxSwitches == 2
\* a stream fails at most this often while it stays usable
MaxFailures == 1

\* the locals of a from_stream call that has not been made
IdleCall ==
    [pc |-> "idle", response |-> DefaultResponse, p |-> 0, read_currently |-> 0,
     filled |-> 0, hbuf |-> <<>>, result |-> "none", bodyReads |-> 0]

\* the locals of the running call
Locals ==
    [pc |-> pc, response |-> response, p |-> p, read_currently |-> read_currently,
     filled |-> filled, hbuf |-> hbuf, result |-> result, bodyReads |-> bodyReads]

\* from_stream calls made so far: those returned to their callers and those
\* the two tasks are in
CallsMade ==
    Len(returned) + (IF pc = "idle" THEN 0 ELSE 1)
                  + (IF parked.pc = "idle" THEN 0 ELSE 1)

\* a task calls from_stream on the shared stream
StreamCall ==
    /\ train # <<>>
    /\ CallsMade < MaxCalls
    /\ CallFromStream

\* the failures from_stream has reported on the stream
Failures == {k \in 1..Len(returned) : returned[k].result # "ok"}

\* the stream fails under the pending read, and stays usable; the stream
\* that unserialized tasks share is a healthy one, which ends but never fails
StreamError ==
    /\ train # <<>>
    /\ serialized
    /\ Cardinality(Failures) < MaxFailures
    /\ PollError

\* from_stream hands its result to the caller, whose task is then free to
\* make its next call
Return ==
    /\ train # <<>>
    /\ pc = "done"
    /\ returned' = Append(returned, [result |-> result, response |-> response,
                                     end |-> pos])
    /\ pc' = IdleCall.pc
    /\ response' = IdleCall.response
    /\ p' = IdleCall.p
    /\ read_currently' = IdleCall.read_currently
    /\ filled' = IdleCall.filled
    /\ hbuf' = IdleCall.hbuf
    /\ result' = IdleCall.result
    /\ bodyReads' = IdleCall.bodyReads
    /\ UNCHANGED <<mid, cut, segment, pos, partial, decoded, train, serialized,
                   parked, switches, rvars, kvars, cvars, avars, ivars>>

\* where a serialized caller lets the other task in: between calls
CallBoundary == pc = "idle"

\* the other task runs: at any await point of from_stream when nothing
\* serializes the exchanges, between calls when they are serialized
Switch ==
    /\ train # <<>>
    /\ serialized => CallBoundary
    /\ switches < MaxSwitches
    /\ switches' = switches + 1
    /\ parked' = Locals
    /\ pc' = parked.pc
    /\ response' = parked.response
    /\ p' = parked.p
    /\ read_currently' = parked.read_currently
    /\ filled' = parked.filled
    /\ hbuf' = parked.hbuf
    /\ result' = parked.result
    /\ bodyReads' = parked.bodyReads
    /\ UNCHANGED <<mid, cut, segment, pos, partial, decoded, train, serialized,
                   returned, rvars, kvars, cvars, avars, ivars>>

NextStream ==
    \/ StreamCall
    \/ \E arrived \in BOOLEAN : PollData(arrived)
    \/ PollEof
    \/ StreamError
    \/ Return
    \/ Switch

(***************************************************************************)
(* An exchange: tasks build Requests, and once one is built the answer     *)
(* that the agent wrote is read from the stream.                           *)
(***************************************************************************)
\* the payload of the Requests of an exchange
ExchangePayload ==
    [variant |-> 0, fields |-> Usize(0, MaxLo), serializable |-> TRUE]

\* the messages the agent answers with: the empty one and a short one
ExchangeMsgs == {1, 2}

\* a task builds the Request of its exchange
ExchangeNew(t) == NewFetchAdd(t, ExchangePayload)

\* the answer is read once a Request has been built
ExchangeRead ==
    /\ \E t \in Callers : rpc[t] = "returned"
    /\ CallFromStream

NextExchange ==
    \/ \E t \in Callers : ExchangeNew(t)
    \/ \E t \in Callers : NewSerializeOk(t)
    \/ ExchangeRead
    \/ \E arrived \in BOOLEAN : PollData(arrived)
    \/ PollEof
    \/ PollError

(***************************************************************************)
(* The access control middleware: AuthMiddleware::call                     *)
(* (src/server/middlewares/acl.rs) and get_auth_bearer_value               *)
(* (src/services.rs).  Strings are sequences of characters.                *)
(***************************************************************************)
NoHttpRequest == [method |-> "none"]
NoHttpResponse == [service_called |-> FALSE, status |-> 0]

\* str::starts_with
starts_with(str, prefix) ==
    Len(str) >= Len(prefix) /\ SubSeq(str, 1, Len(prefix)) = prefix

\* str::ends_with
ends_with(str, suffix) ==
    /\ Len(str) >= Len(suffix)
    /\ SubSeq(str, Len(str) - Len(suffix) + 1, Len(str)) = suffix

\* the string literals of the middleware
PathRoot == <<"/">>
PathSession == <<"/", "s", "e", "s", "s", "i", "o", "n">>
PathUser == <<"/", "u", "s", "e", "r">>
PathEvent == <<"/", "e", "v", "e", "n", "t">>
PrefixUser == <<"/", "u", "s", "e", "r", "/">>
SuffixAuthentication == <<"/", "a", "u", "t", "h", "e", "n", "t", "i", "c", "a", "t", "i", "o", "n">>
BearerPrefix == <<"B", "e", "a", "r", "e", "r", " ">>

\* the request methods sampled
Methods == {"GET", "POST", "PUT", "DELETE"}

\* the request paths sampled: the listed ones, paths that match the
\* pattern, and near misses of both
Paths ==
    {PathRoot, PathSession, PathUser, PathEvent,
     PrefixUser \o <<"1">> \o SuffixAuthentication,
     PathUser \o SuffixAuthentication,
     PrefixUser,
     PrefixUser \o <<"1">>,
     PathUser \o <<"s">> \o SuffixAuthentication,
     <<"/", "x">> \o SuffixAuthentication,
     SuffixAuthentication,
     PrefixUser \o <<"1">> \o SuffixAuthentication \o PathRoot,
     PathSession \o PathRoot,
     PathEvent \o <<"/", "1">>,
     <<"/", "v", "1">> \o PathSession}

\* a token that decodes to a JwtToken, and one that does not
GoodJwt == <<"j", "w", "t">>
BadJwt == <<"b", "a", "d">>

\* decode_jwt::<JwtToken>: Some(token) exactly for the tokens that decode
decode_jwt(jwt_string) == jwt_string = GoodJwt

\* the Authorization headers sampled: none, Bearer with either token or
\* with none, other schemes and spellings, and a Bearer value that holds
\* a non-visible character, for which to_str() fails
AuthHeaders ==
    {[present |-> FALSE, visible |-> TRUE, text |-> <<>>]}
    \cup {[present |-> TRUE, visible |-> v, text |-> t] :
            v \in BOOLEAN,
            t \in {BearerPrefix \o GoodJwt,
                   BearerPrefix \o BadJwt,
                   BearerPrefix,
                   <<"B", "e", "a", "r", "e", "r">> \o GoodJwt,
                   <<"b", "e", "a", "r", "e", "r", " ">> \o GoodJwt,
                   <<"B", "a", "s", "i", "c", " ">> \o GoodJwt,
                   GoodJwt}}

HttpRequests == [method : Methods, path : Paths, authorization : AuthHeaders]

\* mutant: POST /user's method is not looked at
check_anonymous_list_any_method(method, path) ==
    IF path = PathRoot THEN TRUE
    ELSE IF path = PathSession THEN TRUE
    ELSE IF path = PathUser THEN TRUE
    ELSE IF path = PathEvent THEN method = "GET"
    ELSE starts_with(path, PrefixUser) /\ ends_with(path, SuffixAuthentication)

\* check_anonymous_list: the match on the path, first arm that fits
check_anonymous_list(method, path) ==
    IF path = PathRoot THEN TRUE
    ELSE IF path = PathSession THEN TRUE
    ELSE IF path = PathUser THEN method = "POST"
    ELSE IF path = PathEvent THEN method = "GET"
    ELSE starts_with(path, PrefixUser) /\ ends_with(path, SuffixAuthentication)

NoBearer == [some |-> FALSE]

\* get_auth_bearer_value: the text behind "Bearer ", if to_str() succeeds
\* and the value starts with it
get_auth_bearer_value(auth_string) ==
    IF auth_string.visible /\ starts_with(auth_string.text, BearerPrefix)
    THEN [some |-> TRUE,
          value |-> SubSeq(auth_string.text, Len(BearerPrefix) + 1,
                           Len(auth_string.text))]
    ELSE NoBearer

\* Either::Left(self.service.call(req))
Forwarded == [service_called |-> TRUE, status |-> 0]

\* Either::Right: HttpResponse::Forbidden(), the inner service not called
Forbidden == [service_called |-> FALSE, status |-> 403]

\* the bearer token of the request decodes
HasValidBearer(req) ==
    /\ req.authorization.present
    /\ get_auth_bearer_value(req.authorization).some
    /\ decode_jwt(get_auth_bearer_value(req.authorization).value)

\* AuthMiddleware::call
AuthCall ==
    /\ areq # NoHttpRequest
    /\ aout = NoHttpResponse
    /\ aout' = IF check_anonymous_list(areq.method, areq.path) THEN Forwarded
               ELSE IF HasValidBearer(areq) THEN Forwarded
               ELSE Forbidden
    /\ UNCHANGED <<areq, rvars, svars, kvars, cvars, mvars, ivars>>

NextAcl == AuthCall

(***************************************************************************)
(* Identity::validate_oa_account (src/models/user/identity.rs).  A string  *)
(* is a sequence of characters; EAcute stands for a character that takes   *)
(* two bytes in UTF-8, every other character takes one.                    *)
(***************************************************************************)
EAcute == "e-acute"

NoAccount == [student_id |-> <<>>, oa_secret |-> <<>>]

Utf8Len(c) == IF c = EAcute THEN 2 ELSE 1

RECURSIVE ByteLen(_)
\* str::len: the length in bytes
ByteLen(str) ==
    IF str = <<>> THEN 0 ELSE Utf8Len(Head(str)) + ByteLen(Tail(str))

\* char::is_ascii_digit
is_ascii_digit(c) == c \in {"0", "1", "2", "3", "4", "5", "6", "7", "8", "9"}

\* is_default_digit: six bytes, six of the characters ASCII digits
is_default_digit(secret) ==
    /\ ByteLen(secret) = 6
    /\ Cardinality({i \in 1..Len(secret) : is_ascii_digit(secret[i])}) = 6

\* is_student_id: nine or ten bytes
is_student_id(account) == ByteLen(account) = 9 \/ ByteLen(account) = 10

\* is_not_undergraduate: chars().nth(2) == Some('3')
is_not_undergraduate(account) == Len(account) >= 3 /\ account[3] = "3"

\* the secrets sampled: the tests' "123456", "1234567" and "Hello1", a
\* shorter one, and two with the two-byte character
Secrets ==
    {<<"1", "2", "3", "4", "5", "6">>,
     <<"1", "2", "3", "4", "5", "6", "7">>,
     <<"H", "e", "l", "l", "o", "1">>,
     <<"1", "2", "3", "4", "5">>,
     <<"1", "2", "3", "4", "5">> \o <<EAcute>>,
     <<"1", "2", "3", "4">> \o <<EAcute>>,
     <<"0", "0", "0", "0", "0", "0">>}

\* the student ids sampled: the tests' "2111421206" and "21310101208032",
\* ids of 9 and 10 bytes with and without a '3' in third place, ids that
\* are too short, and two with the two-byte character
StudentIds ==
    {<<"2", "1", "1", "1", "4", "2", "1", "2", "0", "6">>,
     <<"2", "1", "1", "1", "4", "2", "1", "2", "0">>,
     <<"2", "1", "3", "1", "0", "1", "0", "1", "2">>,
     <<"2", "1", "3", "1", "0", "1", "0", "1", "2", "0">>,
     <<"2", "1", "3", "1", "0", "1", "0", "1", "2", "0", "8", "0", "3", "2">>,
     <<"2", "1", "1", "1", "4", "2", "1", "2">>,
     <<"2", "1">>,
     <<EAcute>> \o <<"1", "1", "1", "4", "2", "1", "2", "0">>,
     <<"2", EAcute>> \o <<"3", "1", "4", "2", "1", "2", "0">>}

Accounts == [student_id : StudentIds, oa_secret : Secrets]

\* mutant: the student id is checked before the secret
ValidateIdFirst(student_id, oa_secret) ==
    IF ~is_student_id(student_id) THEN "NoSuchStudentNo"
    ELSE IF is_default_digit(oa_secret) THEN "DefaultSecretDenied"
    ELSE IF is_not_undergraduate(student_id) THEN "NoSupport"
    ELSE "portal"

\* validate_oa_account, lines 16-24: the three checks in order; "portal"
\* if none of them returns
Validate(student_id, oa_secret) ==
    IF is_default_digit(oa_secret) THEN "DefaultSecretDenied"
    ELSE IF ~is_student_id(student_id) THEN "NoSuchStudentNo"
    ELSE IF is_not_undergraduate(student_id) THEN "NoSupport"
    ELSE "portal"

\* validate_oa_account is called: it returns an error of its own, or calls
\* verify_portal_login and awaits it
ValidateCall ==
    /\ ipc = "idle"
    /\ iarg # NoAccount
    /\ IF Validate(iarg.student_id, iarg.oa_secret) = "portal"
       THEN /\ ipc' = "portal"
            /\ portal' = portal + 1
            /\ UNCHANGED iout
       ELSE /\ ipc' = "returned"
            /\ iout' = Validate(iarg.student_id, iarg.oa_secret)
            /\ UNCHANGED portal
    /\ UNCHANGED <<iarg, rvars, svars, kvars, cvars, mvars, avars>>

\* verify_portal_login returns: `?` hands its error on, else Ok(())
PortalReply(accepted) ==
    /\ ipc = "portal"
    /\ ipc' = "returned"
    /\ iout' = IF accepted THEN "Ok" ELSE "PortalError"
    /\ UNCHANGED <<iarg, portal, rvars, svars, kvars, cvars, mvars, avars>>

NextIdentity ==
    \/ ValidateCall
    \/ \E accepted \in BOOLEAN : PortalReply(accepted)

(***************************************************************************)
(* The specifications: the builder's callers, and one exchange's reader.   *)
(***************************************************************************)
\* is_ok has not been asked
ClassifyIdle == success = "unknown"

\* the codec is not in use
CodecIdle ==
    /\ cvalue = NoValue
    /\ cbytes = <<>>
    /\ cback = NotDecoded

\* the stream carries one message and one exchange reads it
SingleCall ==
    /\ train = <<>>
    /\ serialized = TRUE
    /\ parked = IdleCall
    /\ switches = 0
    /\ returned = <<>>

\* no request has reached the middleware
AclIdle ==
    /\ areq = NoHttpRequest
    /\ aout = NoHttpResponse

\* validate_oa_account has not been called
IdentityIdle ==
    /\ iarg = NoAccount
    /\ ipc = "idle"
    /\ iout = "none"
    /\ portal = 0

\* nothing but the protocol's builder and reader is in use
OthersIdle == ClassifyIdle /\ CodecIdle /\ SingleCall /\ AclIdle /\ IdentityIdle

ResponseIdle ==
    /\ mid = 1
    /\ cut = 0
    /\ segment = 1
    /\ pos = 0
    /\ pc = "idle"
    /\ response = DefaultResponse
    /\ p = 0
    /\ read_currently = 0
    /\ filled = 0
    /\ hbuf = <<>>
    /\ result = "none"
    /\ bodyReads = 0
    /\ partial = FALSE
    /\ decoded = NotDecoded

\* the builder's callers start; no response is being read
InitBuilder == InitRequest /\ ResponseIdle /\ OthersIdle

\* the reader starts on a stream; no Request is being built
InitReader == InitRequest /\ InitResponse /\ OthersIdle

SpecRequest == InitBuilder /\ [][NextRequest]_vars

SpecResponse == InitReader /\ [][NextResponse]_vars

\* what the stream does under a pending read: it delivers bytes, ends or
\* fails
StreamStep ==
    \/ \E arrived \in BOOLEAN : PollData(arrived)
    \/ PollEof
    \/ PollError

\* the reader on a stream that does not leave a pending read unanswered
\* for ever
SpecResponseFair == SpecResponse /\ WF_vars(StreamStep)

\* a caller holds a Response that from_stream returned
InitClassify ==
    /\ InitRequest
    /\ mid = 1
    /\ cut = 0
    /\ segment = 1
    /\ pos = 0
    /\ pc = "done"
    /\ response \in SampleResponses
    /\ p = response.size
    /\ read_currently = 0
    /\ filled = 0
    /\ hbuf = <<>>
    /\ result = "ok"
    /\ bodyReads = 0
    /\ partial = FALSE
    /\ decoded = NotDecoded
    /\ ClassifyIdle /\ CodecIdle /\ SingleCall /\ AclIdle /\ IdentityIdle

SpecClassify == InitClassify /\ [][NextClassify]_vars

\* a payload value is about to be encoded
InitCodec ==
    /\ InitRequest /\ ResponseIdle
    /\ cvalue \in PayloadValues
    /\ cbytes = <<>>
    /\ cback = NotDecoded
    /\ ClassifyIdle /\ SingleCall /\ AclIdle /\ IdentityIdle

SpecCodec == InitCodec /\ [][NextCodec]_vars

\* a request has reached the middleware
InitAcl ==
    /\ InitRequest /\ ResponseIdle
    /\ areq \in HttpRequests
    /\ aout = NoHttpResponse
    /\ ClassifyIdle /\ CodecIdle /\ SingleCall /\ IdentityIdle

SpecAcl == InitAcl /\ [][NextAcl]_vars

\* validate_oa_account is about to be called with an account
InitIdentity ==
    /\ InitRequest /\ ResponseIdle
    /\ iarg \in Accounts
    /\ ipc = "idle"
    /\ iout = "none"
    /\ portal = 0
    /\ ClassifyIdle /\ CodecIdle /\ SingleCall /\ AclIdle

SpecIdentity == InitIdentity /\ [][NextIdentity]_vars

\* no Request is built yet; the agent's answer is on the stream, which ends
\* behind it or inside it
InitExchange ==
    /\ InitRequest
    /\ mid \in ExchangeMsgs
    /\ cut \in {HeaderLen + Messages[mid].size - 1, Len(Wires[mid])}
    /\ segment = TrainSegment
    /\ pos = 0
    /\ pc = "idle"
    /\ response = DefaultResponse
    /\ p = 0
    /\ read_currently = 0
    /\ filled = 0
    /\ hbuf = <<>>
    /\ result = "none"
    /\ bodyReads = 0
    /\ partial = FALSE
    /\ decoded = NotDecoded
    /\ OthersIdle

SpecExchange == InitExchange /\ [][NextExchange]_vars

\* the agent has written a train of messages; two tasks are about to read
\* the stream, serialized by their callers or not
InitStream ==
    /\ InitRequest
    /\ train \in Trains
    /\ serialized \in BOOLEAN
    /\ parked = IdleCall
    /\ switches = 0
    /\ returned = <<>>
    /\ mid = 1
    /\ cut = Len(TrainWire(train))
    /\ segment = TrainSegment
    /\ pos = 0
    /\ pc = "idle"
    /\ response = DefaultResponse
    /\ p = 0
    /\ read_currently = 0
    /\ filled = 0
    /\ hbuf = <<>>
    /\ result = "none"
    /\ bodyReads = 0
    /\ partial = FALSE
    /\ decoded = NotDecoded
    /\ ClassifyIdle /\ CodecIdle /\ AclIdle /\ IdentityIdle

SpecStream == InitStream /\ [][NextStream]_vars

(***************************************************************************)
(* Properties of the Request side.                                         *)
(***************************************************************************)
\* the tasks that have executed their fetch_add
Fetched == {t \in Callers : rpc[t] # "idle"}

\* the seq values those tasks obtained
ObtainedSeqs == {seq[t] : t \in Fetched}

\* C1: under every interleaving of the callers' fetch_add, the N seq values
\* obtained so far are pairwise distinct and are exactly
\* {initial, ..., initial + N - 1}, initial being the counter's first value.
C1_DistinctContiguousSeqs ==
    /\ \A t, u \in Fetched : t # u => seq[t] # seq[u]
    /\ ObtainedSeqs = InitialSeq..(InitialSeq + Cardinality(Fetched) - 1)

\* C1 witness: all callers have fetched, two of them are still inside
\* Request::new together, and the values were not handed out in task order.
C1_Witness ==
    /\ Cardinality(Fetched) = MaxCallers
    /\ Cardinality({t \in Callers : rpc[t] = "fetched"}) >= 2
    /\ seq[1] > seq[2]

\* C4 (as claimed): every returned Request has size == len(payload),
\* whatever the encoded length, size never being a truncation of it.
C4_SizeEqualsLen ==
    \A t \in Callers :
        rpc[t] = "returned" => AsUsize(request[t].size) = request[t].payload

\* C8 (as claimed): the builder hands a failing encode back to its caller as
\* an error value; no call of the builder ever ends in a panic.
C8_EncodeFailureIsErrorValue ==
    \A t \in Callers : rpc[t] # "panicked"

\* C9, state part: the counter started at 1 and equals 1 + k after k
\* constructions; the i-th construction was given seq = i, and the Request
\* it returns carries that seq.
C9_CounterState ==
    /\ InitialSeq = 1
    /\ LAST_SEQ = 1 + Len(issued)
    /\ \A i \in 1..Len(issued) :
          /\ issued[i].value = i
          /\ rpc[issued[i].task] = "returned" => request[issued[i].task].seq = i

\* C9, step part: the counter changes only by a construction's fetch_add,
\* and then by exactly one, upwards.
C9_CounterStep ==
    /\ LAST_SEQ' >= LAST_SEQ
    /\ LAST_SEQ' # LAST_SEQ =>
          /\ LAST_SEQ' = LAST_SEQ + 1
          /\ Len(issued') = Len(issued) + 1
    /\ Len(issued') # Len(issued) => LAST_SEQ' = LAST_SEQ + 1

\* C9: the sequence counter starts at 1, every Request construction
\* reads-and-increments it exactly once by exactly 1, nothing else changes
\* it, it never decreases, and the i-th construction carries seq = i.
C9_CounterDiscipline == []C9_CounterState /\ [][C9_CounterStep]_vars

\* C9 witness: every caller constructed a Request, all returned, the counter
\* stands at 1 + MaxCallers and the second construction carries seq = 2.
C9_Witness ==
    /\ Len(issued) = MaxCallers
    /\ \A t \in Callers : rpc[t] = "returned"
    /\ LAST_SEQ = 1 + MaxCallers
    /\ request[issued[2].task].seq = 2
(***************************************************************************)
(* Properties of the Response side.                                        *)
(***************************************************************************)
\* from_stream has parsed the header and is reading, or has read, the body
HeaderParsed == pc = "body" \/ result = "ok"

\* the body bytes the reader has received
Received == IF pc = "body" THEN p + filled ELSE p

\* the same count in the state a step leads to
ReceivedNext == IF pc' = "body" THEN p' + filled' ELSE p'

\* C2: whenever from_stream returns successfully for an announced size > 0,
\* however the stream split the body into deliveries, the payload has
\* exactly size bytes and equals, byte for byte and in order, the bytes the
\* sender placed after the header.
C2_PayloadIsBodySent ==
    (result = "ok" /\ Messages[mid].size > 0) =>
        /\ response.size = Messages[mid].size
        /\ Len(response.payload) = response.size
        /\ response.payload = Messages[mid].body

\* C2 witness: the three-chunk body was returned after being delivered in
\* segments shorter than a chunk, some read having been filled piecewise.
C2_Witness ==
    /\ result = "ok"
    /\ response.size = 2 * ChunkMax + TailSize
    /\ segment < ChunkMax
    /\ partial

\* C3: when the stream ends after the header announced size S > 0 and before
\* S body bytes were delivered, a finished from_stream returned an Io error;
\* a successful return has received all S bytes of its payload.
C3_ShortBodyIsIoError ==
    /\ (pc = "done" /\ Messages[mid].size > 0 /\ cut >= HeaderLen
          /\ cut < HeaderLen + Messages[mid].size) => result = "io"
    /\ result = "ok" =>
          /\ p = response.size
          /\ pos = HeaderLen + response.size
          /\ Len(response.payload) = response.size

\* C3 witness: the stream ended after 3 bytes of an announced 10-byte body
\* and the read returned the Io error there.
C3_Witness ==
    /\ Messages[mid].size = MidSize
    /\ cut = HeaderLen + SmallSize
    /\ pos = cut
    /\ bodyReads = 1
    /\ result = "io"

\* C5: when the header announces size = 0, from_stream has returned
\* successfully as soon as the 14 header bytes are consumed, with an empty
\* payload, having consumed exactly those 14 bytes and issued no body read.
C5_EmptyBodyReturnsAtHeader ==
    (Messages[mid].size = 0 /\ pos >= HeaderLen) =>
        /\ result = "ok"
        /\ response.size = 0
        /\ response.payload = <<>>
        /\ pos = HeaderLen
        /\ bodyReads = 0

\* C5 witness: a size-0 header was read piecewise and the call returned
\* while further bytes were waiting on the stream.
C5_Witness ==
    /\ Messages[mid].size = 0
    /\ result = "ok"
    /\ pos = HeaderLen
    /\ cut > HeaderLen
    /\ partial

\* C6 (as claimed): once the header is parsed, payload.len() <= size and
\* payload.len() equals size only once all size bytes are received.
C6_LenGrowsWithBytes ==
    HeaderParsed =>
        /\ Len(response.payload) <= response.size
        /\ Len(response.payload) = response.size => Received = response.size

\* C6 amended, state part: payload.len() never exceeds size; it is 0 while
\* the header is read and is size as soon as a header with size > 0 is
\* parsed; the received count stays within size and reaches it on success.
C6_LenState ==
    /\ Len(response.payload) <= response.size
    /\ pc \in {"idle", "ack", "size", "code"} => Len(response.payload) = 0
    /\ HeaderParsed =>
          /\ Len(response.payload) = response.size
          /\ p <= response.size
          /\ Received <= response.size
          /\ result = "ok" => Received = response.size

\* C6 amended, step part: while the read has not failed, payload.len() and
\* the received count never decrease.
C6_LenStep ==
    result' # "io" =>
        /\ Len(response.payload') >= Len(response.payload)
        /\ p' >= p
        /\ ReceivedNext >= Received

\* C6 amended: payload.len() <= size in every state and never decreases
\* during the read, but it jumps from 0 to size when the header is parsed;
\* it is the count of received bytes that grows from 0 to size.
C6_Amended == []C6_LenState /\ [][C6_LenStep]_vars

\* C6 witness: the full-length buffer exists while the second chunk of a
\* long body is only partly received.
C6_Witness ==
    /\ pc = "body"
    /\ p = ChunkMax
    /\ filled > 0
    /\ Len(response.payload) = response.size
    /\ Received < response.size

\* C7: every pending body read asks for min(2048, size - p) bytes, so for at
\* most 2048 and at most what is missing, and its target slice
\* payload[p .. p + n] lies inside the size-byte buffer.
C7_BoundedBodyRead ==
    pc = "body" =>
        /\ read_currently >= 1
        /\ read_currently <= ChunkMax
        /\ read_currently <= response.size - p
        /\ read_currently = Min(ChunkMax, response.size - p)
        /\ p >= 0
        /\ p + read_currently <= Len(response.payload)
        /\ Len(response.payload) = response.size

\* C7 witness: the third read of the longest body asks for the short tail.
C7_Witness ==
    /\ pc = "body"
    /\ p = 2 * ChunkMax
    /\ read_currently = TailSize
    /\ bodyReads = 3

\* the payload has no variant index the codec knows, or is too short for
\* the variant it names
UnknownVariant(bytes) ==
    /\ Len(bytes) >= TagBytes
    /\ ~(bytes[1] < NumVariants /\ \A i \in 2..TagBytes : bytes[i] = 0)

TooShort(bytes) ==
    \/ Len(bytes) < TagBytes
    \/ /\ ~UnknownVariant(bytes)
       /\ IF bytes[1] < 2
          THEN Len(bytes) < TagBytes + StructLen
          ELSE \/ Len(bytes) < TagBytes + CountBytes
               \/ \E i \in (TagBytes + 2)..(TagBytes + CountBytes) : bytes[i] # 0
               \/ Len(bytes) < TagBytes + CountBytes + bytes[TagBytes + 1] * ElemLen

\* C10: decoding a fully received Response whose payload has an unrecognized
\* discriminant or is too short for its variant returns the Decode error
\* value; decode ends in a value or that error, never a panic, and the
\* Response is consumed by the call.
C10_DecodeErrorIsValue ==
    /\ decoded # NotDecoded <=> pc = "consumed"
    /\ pc = "consumed" =>
          /\ result = "ok"
          /\ decoded.ok \/ decoded = DecodeError
          /\ (UnknownVariant(response.payload) \/ TooShort(response.payload))
                => decoded = DecodeError
          /\ ~(UnknownVariant(response.payload) \/ TooShort(response.payload))
                => decoded.ok /\ decoded.variant = response.payload[1]

\* C10 witness: a payload naming a fifth variant was decoded to the error.
C10_Witness ==
    /\ pc = "consumed"
    /\ UnknownVariant(response.payload)
    /\ response.payload[1] = NumVariants
    /\ decoded = DecodeError

(***************************************************************************)
(* Properties of Response::is_ok.                                          *)
(***************************************************************************)
\* C11: is_ok answers true exactly when the Response's code is 0; the
\* answer is the same for every ack, size and payload the Response carries.
C11_OkIffCodeZero ==
    success # "unknown" => (success = "true" <=> response.code = 0)

\* C11 witness: a Response that differs from a successful empty one by its
\* code alone is answered false
C11_Witness ==
    /\ success = "false"
    /\ response.ack = 0 /\ response.size = 0 /\ response.code = 1

(***************************************************************************)
(* Properties of the header read.                                          *)
(***************************************************************************)
\* C12: the header is read as three consecutive reads, the 8 bytes of ack,
\* then the 4 bytes of size, then the 2 bytes of code, each field decoded
\* from its own bytes; a call that ended before the 14 header bytes were
\* delivered ended in an Io error, returned no Response and issued no body
\* read.
C12_HeaderReads ==
    /\ pc = "ack" => pos = filled /\ filled < AckBytes
    /\ pc = "size" =>
          /\ pos = AckBytes + filled /\ filled < SizeBytes
          /\ response.ack = Messages[mid].ack
    /\ pc = "code" =>
          /\ pos = AckBytes + SizeBytes + filled /\ filled < CodeBytes
          /\ response.ack = Messages[mid].ack
          /\ response.size = Messages[mid].size
    /\ HeaderParsed =>
          /\ pos >= AckBytes + SizeBytes + CodeBytes
          /\ response.ack = Messages[mid].ack
          /\ response.size = Messages[mid].size
          /\ response.code = Messages[mid].code
    /\ (pc = "done" /\ pos < AckBytes + SizeBytes + CodeBytes) =>
          result = "io" /\ response = DefaultResponse
    /\ pos < AckBytes + SizeBytes + CodeBytes => bodyReads = 0

\* C12 witness: the stream ended inside the header, after some of its bytes
\* were taken, and the call has returned
C12_Witness ==
    /\ pc = "done"
    /\ result = "io"
    /\ cut = pos
    /\ pos > 0 /\ pos < AckBytes + SizeBytes + CodeBytes

(***************************************************************************)
(* Properties of the payload codec.                                        *)
(***************************************************************************)
\* C13: for each of the four request variants and each of the four
\* response variants, decoding the encoded payload gives the payload back;
\* the discriminant that encode wrote is the variant's position, and decode
\* finds the variant at that position.
C13_RoundTrip ==
    /\ cbytes # <<>> => FromLE(SubSeq(cbytes, 1, TagBytes)) = cvalue.variant
    /\ cback # NotDecoded =>
          /\ cback.ok
          /\ cback.variant = cvalue.variant
          /\ cback.fields = cvalue.fields

\* C13 witness: a response list of MaxElems elements has made the round
\* trip
C13_Witness ==
    /\ cback # NotDecoded
    /\ cvalue.side = "response"
    /\ cvalue.variant = 2
    /\ Len(cvalue.fields) = MaxElems * ElemLen

(***************************************************************************)
(* Properties of several from_stream calls on one stream.                  *)
(***************************************************************************)
\* message m as from_stream returns it
AsReturned(m) ==
    [ack |-> Messages[m].ack, size |-> Messages[m].size,
     code |-> Messages[m].code, payload |-> Messages[m].body]

\* the stream position at which the k-th message of the train ends
Boundary(k) == Len(TrainWire(SubSeq(train, 1, k)))

\* the first k calls all returned a Response
AllOk(k) == \A j \in 1..k : returned[j].result = "ok"

\* C14: a successful from_stream call consumes exactly the 14 + size bytes
\* of its message and no more: when the stream carries well-formed
\* messages back to back and the calls are made one after another, the
\* k-th call returns the k-th message and leaves the stream at that
\* message's end, and a call never takes a byte beyond its message.
C14_InOrder ==
    (train # <<>> /\ serialized) =>
        /\ \A k \in 1..Len(returned) :
              AllOk(k) =>
                 /\ k <= Len(train)
                 /\ returned[k].response = AsReturned(train[k])
                 /\ returned[k].end = Boundary(k)
                 /\ returned[k].end = Boundary(k - 1) + HeaderLen
                                          + returned[k].response.size
        /\ (AllOk(Len(returned)) /\ pc # "idle") =>
              /\ pos >= Boundary(Len(returned))
              /\ pos <= Boundary(Min(Len(returned) + 1, Len(train)))

\* C14 witness: a train of a message with a body and an empty one was read
\* by two calls in order, over deliveries that split a read
C14_Witness ==
    /\ serialized
    /\ partial
    /\ Len(returned) = 2
    /\ AllOk(2)
    /\ returned[1].response.size = SmallSize
    /\ returned[2].response.size = 0

\* C17: when every from_stream call on the stream runs to completion before
\* the next one starts, every call takes the bytes of one message, from
\* its first to its last, and returns that message; without that
\* serialization a Response made of the bytes of two messages is reachable
\* (the witness).
C17_NoMixWhenSerialized ==
    (train # <<>> /\ serialized) =>
        \A k \in 1..Len(returned) :
            AllOk(k) =>
                \E j \in 1..Len(train) :
                    /\ (IF k = 1 THEN 0 ELSE returned[k - 1].end) = Boundary(j - 1)
                    /\ returned[k].end = Boundary(j)
                    /\ returned[k].response = AsReturned(train[j])

\* C17 witness: the read steps of two calls interleaved, no read failed,
\* and a call returned a Response that is none of the messages sent
C17_Witness ==
    /\ train # <<>>
    /\ ~serialized
    /\ Failures = {}
    /\ result # "io" /\ parked.result # "io"
    /\ \E k \in 1..Len(returned) :
          returned[k].response \notin {AsReturned(train[j]) : j \in 1..Len(train)}

\* the Response a reader builds from the bytes that follow position `at`
ResponseAt(at) ==
    LET sz == FromBE(SubSeq(Wire, at + AckBytes + 1, at + AckBytes + SizeBytes))
    IN [ack |-> FromBE(SubSeq(Wire, at + 1, at + AckBytes)),
        size |-> sz,
        code |-> FromBE(SubSeq(Wire, at + AckBytes + SizeBytes + 1, at + HeaderLen)),
        payload |-> SubSeq(Wire, at + HeaderLen + 1, at + HeaderLen + sz)]

\* a step in which a pending read fails: the call is over with an Io error,
\* hands no Response to the caller and issues no further read; no step
\* puts bytes back on the stream
C18_Step ==
    /\ pos' >= pos
    /\ (Reading /\ pos' = pos /\ switches' = switches) =>
          /\ pc' = "done"
          /\ result' = "io"
          /\ response' = DefaultResponse
          /\ bodyReads' = bodyReads

\* a call made after a failed one reads on from where the failed call
\* stopped, not from the start of the interrupted message
C18_Resumes ==
    (train # <<>> /\ serialized) =>
        \A k \in 2..Len(returned) :
            (returned[k - 1].result = "io" /\ returned[k].result = "ok") =>
                /\ returned[k].response = ResponseAt(returned[k - 1].end)
                /\ returned[k].end = returned[k - 1].end + HeaderLen
                                         + returned[k].response.size

\* C18: from_stream does not retry: once a header or body read has failed,
\* no further read is issued and the error is returned at once; the bytes
\* consumed are neither handed to the caller nor put back, so a later read
\* on the stream continues behind them and not at the interrupted
\* message's start.
C18_NoRetry == [][C18_Step]_vars /\ []C18_Resumes

\* C18 witness: a call failed inside the first message, and the next call
\* returned a Response built from the bytes behind the failure
C18_Witness ==
    /\ serialized
    /\ Len(returned) >= 2
    /\ returned[1].result = "io"
    /\ returned[1].end > 0 /\ returned[1].end < Boundary(1)
    /\ returned[2].result = "ok"

(***************************************************************************)
(* Properties of an exchange.                                              *)
(***************************************************************************)
\* every task that entered Request::new has left it
Quiescent == \A t \in Callers : rpc[t] \in {"idle", "returned"}

\* C15: the reader never compares ack with a seq: once the bytes of a
\* well-formed message have been taken, from_stream has returned the
\* Response with the ack the agent wrote, whatever Requests have been
\* built; an exchange whose Response carries an ack other than the seq of
\* the most recently built Request is a successful outcome (the witness).
C15_AckNotChecked ==
    (pc = "done" /\ pos = HeaderLen + Messages[mid].size) =>
        /\ result = "ok"
        /\ response.ack = Messages[mid].ack

\* C15 witness: Requests have been built, the last with seq LAST_SEQ - 1,
\* and from_stream returned a Response with another ack
C15_Witness ==
    /\ Quiescent
    /\ \E t \in Callers : rpc[t] = "returned" /\ request[t].seq = LAST_SEQ - 1
    /\ pc = "done"
    /\ result = "ok"
    /\ response.ack # LAST_SEQ - 1

(***************************************************************************)
(* Properties of the body loop.                                            *)
(***************************************************************************)
\* a step that completes a body read: p advances by exactly the number of
\* bytes the read asked for, all of which were delivered, and stays within
\* size
C16_LoopStep ==
    (pc = "body" /\ pos' > pos /\ filled' = 0) =>
        /\ p' = p + read_currently
        /\ p' > p
        /\ filled + (pos' - pos) = read_currently
        /\ p' <= response.size

\* a successful call ran the loop ceil(size / 2048) times and left it with
\* p == size
C16_LoopEnd ==
    result = "ok" =>
        /\ p = response.size
        /\ bodyReads = (response.size + ChunkMax - 1) \div ChunkMax

\* C16: on a stream that answers every pending read, by delivering bytes,
\* by closing or by failing, from_stream eventually returns; p strictly
\* increases at every completed loop iteration, by exactly the bytes
\* requested; on success the loop ran ceil(size / 2048) times and ended
\* with p == size.
C16_Terminates ==
    /\ Reading ~> (result # "none")
    /\ [][C16_LoopStep]_vars
    /\ []C16_LoopEnd

\* C16 witness: a body of two whole chunks and a partial one was read in
\* three iterations
C16_Witness ==
    /\ result = "ok"
    /\ response.size = 2 * ChunkMax + TailSize
    /\ bodyReads = 3
    /\ p = response.size

(***************************************************************************)
(* Properties of the access control middleware.                            *)
(***************************************************************************)
\* the (method, path) pairs that may be requested anonymously
OnAnonymousList(method, path) ==
    \/ path \in {PathRoot, PathSession}
    \/ path = PathUser /\ method = "POST"
    \/ path = PathEvent /\ method = "GET"
    \/ /\ Len(path) >= Len(PrefixUser)
       /\ \A i \in 1..Len(PrefixUser) : path[i] = PrefixUser[i]
       /\ Len(path) >= Len(SuffixAuthentication)
       /\ \A i \in 1..Len(SuffixAuthentication) :
             path[Len(path) - Len(SuffixAuthentication) + i] = SuffixAuthentication[i]

\* the request carries `Authorization: Bearer <jwt>` with a jwt that decodes
CarriesBearerJwt(req) ==
    /\ req.authorization.present
    /\ req.authorization.visible
    /\ req.authorization.text = BearerPrefix \o GoodJwt

\* C19: AuthMiddleware::call forwards the request to the inner service if
\* and only if (method, path) is on the anonymous list or the request
\* carries an Authorization header "Bearer <jwt>" whose jwt decodes;
\* otherwise the inner service is not called and the response is 403.
C19_ForwardIffAllowed ==
    aout # NoHttpResponse =>
        /\ aout.service_called <=>
              (OnAnonymousList(areq.method, areq.path) \/ CarriesBearerJwt(areq))
        /\ ~aout.service_called => aout.status = 403

\* C19 witness: a GET of /user without a usable token was answered 403
\* without the inner service being called
C19_Witness ==
    /\ aout = Forbidden
    /\ areq.method = "GET"
    /\ areq.path = PathUser
    /\ areq.authorization.present
    /\ areq.authorization.text = BearerPrefix \o BadJwt

(***************************************************************************)
(* Properties of validate_oa_account.                                      *)
(***************************************************************************)
\* the secret is exactly six ASCII digits
SixAsciiDigits(secret) ==
    Len(secret) = 6 /\ \A i \in 1..6 : is_ascii_digit(secret[i])

\* the student id is 9 or 10 bytes long
NineOrTen(account) == ByteLen(account) \in {9, 10}

\* the third character of the student id is '3'
ThirdIsThree(account) == Len(account) >= 3 /\ account[3] = "3"

\* C20: validate_oa_account calls the portal login only when the secret is
\* not exactly six ASCII digits, the student id has length 9 or 10 and its
\* third character is not '3'; otherwise it returns without contacting the
\* portal, with DefaultSecretDenied before NoSuchStudentNo before
\* NoSupport.
C20_PortalOnlyAfterChecks ==
    LET six == SixAsciiDigits(iarg.oa_secret)
        len == NineOrTen(iarg.student_id)
        three == ThirdIsThree(iarg.student_id)
    IN /\ portal > 0 => (~six /\ len /\ ~three)
       /\ portal <= 1
       /\ ipc # "idle" =>
             /\ six => (iout = "DefaultSecretDenied" /\ portal = 0)
             /\ (~six /\ ~len) => (iout = "NoSuchStudentNo" /\ portal = 0)
             /\ (~six /\ len /\ three) => (iout = "NoSupport" /\ portal = 0)
             /\ (~six /\ len /\ ~three) =>
                   (portal = 1 /\ iout \in {"none", "Ok", "PortalError"})

\* C20 witness: a default secret with a student id that is neither of
\* valid length nor an undergraduate's was refused for the secret, and the
\* portal was not contacted
C20_Witness ==
    /\ ipc = "returned"
    /\ iout = "DefaultSecretDenied"
    /\ portal = 0
    /\ ~NineOrTen(iarg.student_id)
    /\ ThirdIsThree(iarg.student_id)

====
